---- MODULE Spec2Model ----
(***************************************************************************)
(* Model of scripts/calibrate_thresholds.py: the serial request/response   *)
(* readers (_read_snapshot, _read_thresholds), the averager, the threshold *)
(* pushers and the calibration session of main().                          *)
(*                                                                         *)
(* Bytes are modelled as one-character strings and a line as a sequence of *)
(* bytes, so that decode/strip/split/int are computed the way Python       *)
(* computes them.  Python lists are 0-based: the value of channel idx is   *)
(* element idx+1 of the modelled sequence.                                 *)
(***************************************************************************)
EXTENDS Integers, Sequences, FiniteSets, TLC

\* ------------------------------------------------------------------ bounds
\* Deviations one session can suffer: a transport exception (a write, flush
\* or readline that raises) or the acceptance of a line other than the
\* board's nominal answer.  Timeouts and rejected lines are not counted.
MaxDeviations == 1
\* readline() calls that fit into one attempt's timeout window.
MaxReads == 2

\* ------------------------------------------------------- program constants
NumChannels == 64
Retries == 3
n_samples == 15

FILES == <<"A", "B", "C", "D", "E", "F", "G", "H">>

\* ------------------------------------------------------------ text (bytes)
Digits == {"0", "1", "2", "3", "4", "5", "6", "7", "8", "9"}
DigitChars == <<"0", "1", "2", "3", "4", "5", "6", "7", "8", "9">>
\* what str.strip() and int() treat as whitespace
Whitespace == {" ", "\t", "\n", "\r"}
\* a byte >= 0x80, which the strict ascii codec refuses
NonAscii == "0xFF"
EOL == <<"\r", "\n">>

DigitVal(c) == CHOOSE d \in 0..9 : DigitChars[d + 1] = c

SetMin(S) == CHOOSE x \in S : \A y \in S : x <= y
SetMax(S) == CHOOSE x \in S : \A y \in S : x >= y

\* line.decode('ascii', errors='strict') succeeds
Decodes(line) == \A i \in 1..Len(line) : line[i] # NonAscii

\* str.strip()
Strip(s) ==
    LET keep == {i \in 1..Len(s) : s[i] \notin Whitespace}
    IN  IF keep = {} THEN <<>> ELSE SubSeq(s, SetMin(keep), SetMax(keep))

\* str.upper() on the letters used in square names
Upper(s) ==
    [i \in 1..Len(s) |->
        CASE s[i] = "a" -> "A" [] s[i] = "c" -> "C" [] s[i] = "h" -> "H"
          [] s[i] = "z" -> "Z" [] OTHER -> s[i]]

\* str.split(','): one field more than there are commas, empty fields kept
Split(s) ==
    LET commas == {i \in 1..Len(s) : s[i] = ","}
        n == Cardinality(commas)
        cut(k) == IF k = 0 THEN 0
                  ELSE IF k = n + 1 THEN Len(s) + 1
                  ELSE CHOOSE p \in commas :
                           Cardinality({q \in commas : q < p}) = k - 1
    IN  [k \in 1..(n + 1) |-> SubSeq(s, cut(k - 1) + 1, cut(k) - 1)]

\* ",".join(parts)
RECURSIVE Join(_)
Join(parts) ==
    IF Len(parts) = 0 THEN <<>>
    ELSE IF Len(parts) = 1 THEN parts[1]
    ELSE Join(SubSeq(parts, 1, Len(parts) - 1)) \o <<",">> \o parts[Len(parts)]

\* the digits of an int() literal: whitespace stripped, sign removed
IntBody(t) ==
    LET s == Strip(t)
    IN  IF s # <<>> /\ s[1] \in {"+", "-"} THEN Tail(s) ELSE s

\* int(t) does not raise ValueError
IsInt(t) ==
    LET b == IntBody(t)
    IN  /\ b # <<>>
        /\ \A i \in 1..Len(b) : b[i] \in Digits \cup {"_"}
        /\ b[1] # "_"
        /\ b[Len(b)] # "_"
        /\ \A i \in 1..(Len(b) - 1) : ~(b[i] = "_" /\ b[i + 1] = "_")

RECURSIVE DigitsValue(_)
DigitsValue(b) ==
    IF b = <<>> THEN 0
    ELSE LET init == SubSeq(b, 1, Len(b) - 1)
             last == b[Len(b)]
         IN  IF last = "_" THEN DigitsValue(init)
             ELSE 10 * DigitsValue(init) + DigitVal(last)

\* int(t), for a t with IsInt(t)
IntOf(t) ==
    IF Strip(t)[1] = "-" THEN 0 - DigitsValue(IntBody(t))
    ELSE DigitsValue(IntBody(t))

RECURSIVE NatStr(_)
NatStr(n) ==
    IF n < 10 THEN <<DigitChars[n + 1]>>
    ELSE Append(NatStr(n \div 10), DigitChars[(n % 10) + 1])

\* str(n)
Str(n) == IF n < 0 THEN <<"-">> \o NatStr(0 - n) ELSE NatStr(n)

\* TruncDiv as it would be if the quotient were rounded to the nearest.
TruncDiv_Rounded(a, b) == (2 * a + b) \div (2 * b)

\* int(x) of a quotient: Python truncates toward zero, \div floors
TruncDiv(a, b) == IF a >= 0 THEN a \div b ELSE 0 - ((0 - a) \div b)

\* --------------------------------------------------------------- parsers
Rejected == [ok |-> FALSE, vals |-> <<>>, is_global |-> FALSE]

\* ParseSnapshot without the test of the field count.
ParseSnapshot_AnyCount(line) ==
    IF line = <<>> THEN Rejected
    ELSE IF ~Decodes(line) THEN Rejected
    ELSE LET text == Strip(line)
             parts == Split(text)
         IN  IF \E i \in 1..Len(parts) : ~IsInt(parts[i]) THEN Rejected
             ELSE [ok |-> TRUE,
                   vals |-> [i \in 1..Len(parts) |-> IntOf(parts[i])],
                   is_global |-> FALSE]

\* One iteration of the read loop of _read_snapshot on the line readline()
\* returned: [ok |-> TRUE, vals |-> ...] for the return at line 53, Rejected
\* for each `continue`.
ParseSnapshot(line) ==
    IF line = <<>> THEN Rejected
    ELSE IF ~Decodes(line) THEN Rejected
    ELSE LET text == Strip(line)
             parts == Split(text)
         IN  IF Len(parts) # NumChannels THEN Rejected
             ELSE IF \E i \in 1..Len(parts) : ~IsInt(parts[i]) THEN Rejected
             ELSE [ok |-> TRUE,
                   vals |-> [i \in 1..Len(parts) |-> IntOf(parts[i])],
                   is_global |-> FALSE]

\* ParseThresholds without the test of the field count.
ParseThresholds_AnyCount(line) ==
    IF line = <<>> THEN Rejected
    ELSE IF ~Decodes(line) THEN Rejected
    ELSE LET text == Strip(line)
             parts == SelectSeq(Split(text), LAMBDA p : p # <<>>)
         IN  IF Len(parts) = 0 THEN Rejected
             ELSE IF \E i \in 1..Len(parts) : ~IsInt(parts[i]) THEN Rejected
             ELSE [ok |-> TRUE,
                   vals |-> [i \in 1..Len(parts) |-> IntOf(parts[i])],
                   is_global |-> (Len(parts) = 1)]

\* One iteration of the read loop of _read_thresholds.
ParseThresholds(line) ==
    IF line = <<>> THEN Rejected
    ELSE IF ~Decodes(line) THEN Rejected
    ELSE LET text == Strip(line)
             parts == SelectSeq(Split(text), LAMBDA p : p # <<>>)
         IN  IF Len(parts) \notin {1, NumChannels} THEN Rejected
             ELSE IF \E i \in 1..Len(parts) : ~IsInt(parts[i]) THEN Rejected
             ELSE [ok |-> TRUE,
                   vals |-> [i \in 1..Len(parts) |-> IntOf(parts[i])],
                   is_global |-> (Len(parts) = 1)]

\* ----------------------------------------------------- the device's lines
\* What a channel reads while a piece is put on it and comes to rest (the
\* docstring's "wait 1 second to capture the lowest (occupied) value"): the
\* empty square, then the readings as the piece settles.
Observed == <<500, 500, 440, 430, 445>>
FirstSettle == 4
LastSettle == FirstSettle + Len(Observed) - 1

\* ADC reading of channel idx under light profile k: 1 a lit room, where
\* every channel reads its own value, 2 a reading that is signed, 3 a dark
\* room, FirstSettle..LastSettle the stages of Observed.
Reading(k, idx) ==
    CASE k = 1 -> 2 + 2 * idx
      [] k = 2 -> IF idx % 2 = 0 THEN 7 ELSE 0 - 5
      [] k \in FirstSettle..LastSettle -> Observed[k - FirstSettle + 1]
      [] OTHER -> 0

\* The thresholds the firmware holds before the session.
DevThreshold(m, idx) == IF m = "g" THEN 9 ELSE 20 + idx

Repeat(tok, n) == [i \in 1..n |-> tok]

\* answer to '?': 64 comma-separated values (profile 2 with padded fields:
\* int() accepts blanks and a sign)
SnapLine(k) ==
    Join([i \in 1..NumChannels |->
             IF k = 2 THEN <<" ">> \o Str(Reading(k, i - 1))
             ELSE Str(Reading(k, i - 1))]) \o EOL

\* answer to '!': one value (global firmware) or 64 (per-square firmware)
ThLine(m) ==
    IF m = "g" THEN Str(DevThreshold(m, 0)) \o EOL
    ELSE Join([i \in 1..NumChannels |-> Str(DevThreshold(m, i - 1))]) \o EOL

\* Lines that are no well-formed answer: truncated or overlong lines, line
\* noise, blank lines, stray separators, non-numeric fields.
OtherLines ==
    << Join(Repeat(<<"1", "2">>, NumChannels - 1)) \o EOL,
       Join(Repeat(<<"1", "2">>, NumChannels + 1)) \o EOL,
       Join(Repeat(<<"1", "2">>, NumChannels - 1) \o <<(<<"x">>)>>) \o EOL,
       Join(Repeat(<<"1", "2">>, NumChannels - 1) \o <<(<<>>)>>) \o EOL,
       Join([i \in 1..NumChannels |-> Str(DevThreshold("i", i - 1))]
                \o <<(<<>>)>>) \o EOL,
       <<NonAscii>> \o SnapLine(1),
       <<NonAscii>> \o ThLine("g"),
       EOL,
       <<"x">> \o EOL,
       <<"5", ",">> \o EOL,
       <<"1", ",", ",", "2">> \o EOL,
       <<"1", ",", "2">> \o EOL >>

\* the snapshots of a board with a settling piece, each reading once
SettleLines == <<SnapLine(4), SnapLine(6), SnapLine(7), SnapLine(8)>>

\* What readline() can return: b'' when its own timeout passes, the answers
\* of the board to '?' and '!', and the lines above.
ReadlineResults ==
    <<(<<>>), SnapLine(1), SnapLine(2), SnapLine(3), ThLine("g"), ThLine("i")>>
        \o OtherLines \o SettleLines

IndexOf(line) == CHOOSE k \in 1..Len(ReadlineResults) : ReadlineResults[k] = line
SnapshotAnswer ==
    [k \in {1, 3} \cup (FirstSettle..LastSettle) |-> IndexOf(SnapLine(k))]
ThresholdAnswer == [m \in {"g", "i"} |-> IndexOf(ThLine(m))]

\* What can arrive while a call waits, by the firmware mode m of the board.
\* After '!': the board's answer for its mode, or one of OtherLines.  After
\* '?': a snapshot, the answer to the earlier '!' arriving late, or one of
\* OtherLines.  In both cases nothing may arrive (b'').
OthersAt == {k \in 1..Len(ReadlineResults) :
                \E j \in 1..Len(OtherLines) : ReadlineResults[k] = OtherLines[j]}
Offered ==
    [fn \in {"snapshot", "thresholds"} |->
        [m \in {"g", "i"} |->
            {IndexOf(<<>>), IndexOf(ThLine(m))} \cup OthersAt
                \cup (IF fn = "snapshot"
                      THEN {IndexOf(SnapLine(k)) : k \in 1..3} ELSE {})]]

\* the parsers, tabulated over what readline() can return
SnapshotOf == [k \in 1..Len(ReadlineResults) |-> ParseSnapshot(ReadlineResults[k])]
ThresholdsOf == [k \in 1..Len(ReadlineResults) |-> ParseThresholds(ReadlineResults[k])]

\* ------------------------------------------------------------------ state
VARIABLES
    args_squares,    \* the -s argument, as typed
    pc,              \* where main() stands
    error,           \* the exception that ended main(), "none" while it runs
    ser,             \* the serial port: "open" or "closed"
    rd,              \* the running _read_snapshot/_read_thresholds call: the
                     \* attempt, the place in it, the readline() calls of the
                     \* attempt, the command bytes written, the exceptions
                     \* caught, and why the last attempt ended
    accepted_line,   \* the line the last successful reader return parsed
    ret,             \* what the last reader call returned
    th_vals,
    board_is_global,
    mode,
    n_read,          \* snapshots _average_readings has collected
    buckets,         \* per channel, the sum of the readings collected
    empty,
    occupied,
    thresholds,
    rounds,          \* the capture rounds: per round, the indices it captures
    round,           \* the round the session is in (1-based)
    captured,        \* how many rounds have stored their occupied readings
    sent,            \* how many 'q' and 'c' bytes the host wrote
    queried,         \* the query bytes ('!', '?') the host wrote so far
    dev,             \* the board: firmware mode, light, quiet flag, calibration
                     \* input, and the answers to '!' it has not delivered yet
    deviations       \* deviations still possible in this session

vars == <<args_squares, pc, error, ser, rd, accepted_line, ret, th_vals,
          board_is_global, mode, n_read, buckets, empty, occupied, thresholds,
          rounds, round, captured, sent, queried, dev, deviations>>

readerVars == <<rd, accepted_line, ret>>
modeVars == <<th_vals, board_is_global, mode>>
calVars == <<n_read, buckets, empty, occupied, thresholds, rounds, round, captured>>

Zeros == [i \in 1..NumChannels |-> 0]

\* what the operator may type after -s
SquaresChoices ==
    { <<>>,
      <<"a", "1", ",", " ", "A", "1", ",", "A", "0", "1", ",", "c", "4">>,
      <<",">>,
      <<"z", "1">> }

\* the sessions explored: every -s choice on either firmware in a lit room,
\* the default calibration on either firmware in a dark room, and the
\* calibration of one square on which the piece settles as in Observed
Scenarios ==
    {<<sq, m, 1>> : sq \in SquaresChoices, m \in {"g", "i"}}
        \cup {<<(<<>>), m, 3>> : m \in {"g", "i"}}
        \cup {<<(<<"c", "4">>), "i", FirstSettle>>}

NoRet == [vals |-> <<>>, is_global |-> FALSE]

NoCall == [fn |-> "none", at |-> "idle", attempt |-> 0, reads |-> 0,
           sent |-> 0, exceptions |-> 0, cause |-> "none"]

\* entry of _read_snapshot / _read_thresholds: attempt 0 of range(retries)
Call(fn) == [fn |-> fn, at |-> "send", attempt |-> 0, reads |-> 0,
             sent |-> 0, exceptions |-> 0, cause |-> "none"]

Cmd(fn) == IF fn = "snapshot" THEN "?" ELSE "!"

\* the answer the board gives to the command when nothing goes wrong, as an
\* index into ReadlineResults
Nominal(fn) ==
    IF fn = "snapshot" THEN SnapshotAnswer[dev.light]
    ELSE ThresholdAnswer[dev.mode]

\* the board takes a query byte the host wrote: a '!' it has to answer
DevQueried(d, fn) ==
    IF fn = "thresholds" THEN [d EXCEPT !.owed = @ + 1] ELSE d

\* the board's answer to a '!' reaches the host
DevAnswered(d) == [d EXCEPT !.owed = @ - 1]

\* time.sleep(delay_s) after a snapshot of the baseline: what the board
\* still owes arrives at the latest now, unread, and the next
\* reset_input_buffer() discards it
DevIdle(d) == [d EXCEPT !.owed = 0]

Init ==
    /\ \E sc \in Scenarios :
        /\ args_squares = sc[1]
        /\ dev = [mode |-> sc[2], light |-> sc[3], quiet |-> FALSE, cal |-> FALSE,
                  payload |-> <<>>, owed |-> 0]
    /\ pc = "Idle"
    /\ error = "none"
    /\ ser = "open"
    /\ rd = NoCall
    /\ accepted_line = <<>>
    /\ ret = NoRet
    /\ th_vals = <<>>
    /\ board_is_global = FALSE
    /\ mode = "unset"
    /\ n_read = 0
    /\ buckets = <<>>
    /\ empty = <<>>
    /\ occupied = <<>>
    /\ thresholds = <<>>
    /\ rounds = <<>>
    /\ round = 0
    /\ captured = 0
    /\ sent = [c \in {"c", "q"} |-> 0]
    /\ queried = {}
    /\ deviations = MaxDeviations

\* --------------------------------------------------------------- readers
\* AttemptOver with a loop that runs one attempt more than range(retries).
AttemptOver_OneMore(r, why) ==
    IF r.attempt + 1 <= Retries
    THEN [r EXCEPT !.attempt = @ + 1, !.at = "send", !.reads = 0, !.cause = why]
    ELSE [r EXCEPT !.at = "raised", !.cause = why]

\* End of one attempt without a return: the "retrying" message and the
\* sleep, then the next attempt of range(retries) or the TimeoutError.
AttemptOver(r, why) ==
    IF r.attempt + 1 < Retries
    THEN [r EXCEPT !.attempt = @ + 1, !.at = "send", !.reads = 0, !.cause = why]
    ELSE [r EXCEPT !.at = "raised", !.cause = why]

\* Continue as a dropped line would act if it ended the attempt.
Continue_EndsAttempt(r) ==
    IF r.attempt + 1 < Retries
    THEN [r EXCEPT !.attempt = @ + 1, !.at = "send", !.reads = 0,
                   !.cause = "malformed"]
    ELSE [r EXCEPT !.at = "raised", !.cause = "malformed"]

\* `continue`: the line is dropped and the loop of the attempt goes on.
Continue(r) == [r EXCEPT !.reads = @ + 1]

\* reset_input_buffer(); write(cmd); flush() of one attempt.  The byte is
\* written, or an exception before the write leaves it unwritten, or flush
\* raises after the write; either exception ends the attempt.
RdSend ==
    /\ rd.at = "send"
    /\ \E outcome \in {"ok", "unsent", "flush_error"} :
        /\ outcome # "ok" => deviations > 0
        /\ deviations' = IF outcome = "ok" THEN deviations ELSE deviations - 1
        /\ queried' = IF outcome = "unsent" THEN queried
                      ELSE queried \cup {Cmd(rd.fn)}
        /\ dev' = IF outcome = "unsent" THEN dev ELSE DevQueried(dev, rd.fn)
        /\ rd' = CASE outcome = "ok" ->
                        [rd EXCEPT !.at = "read", !.reads = 0, !.sent = @ + 1]
                   [] outcome = "unsent" ->
                        AttemptOver([rd EXCEPT !.exceptions = @ + 1], "send_error")
                   [] OTHER ->
                        AttemptOver([rd EXCEPT !.sent = @ + 1, !.exceptions = @ + 1],
                                    "send_error")
    /\ UNCHANGED <<args_squares, pc, error, ser, accepted_line, ret, modeVars,
                   calVars, sent>>

\* One iteration of `while time.time() < end`: readline() and the parse.
\* The answer to a '!' can arrive only while the board owes one; it may
\* arrive late, in a later attempt or call.
RdReadLine ==
    /\ rd.at = "read"
    /\ rd.reads < MaxReads
    /\ \E k \in Offered[rd.fn][dev.mode] \cup {Nominal(rd.fn)} :
        LET res == IF rd.fn = "snapshot" THEN SnapshotOf[k] ELSE ThresholdsOf[k]
        IN  /\ k = ThresholdAnswer[dev.mode] => dev.owed > 0
            /\ dev' = IF k = ThresholdAnswer[dev.mode] THEN DevAnswered(dev) ELSE dev
            /\ IF res.ok
               THEN /\ k # Nominal(rd.fn) => deviations > 0
                    /\ deviations' = IF k = Nominal(rd.fn) THEN deviations
                                     ELSE deviations - 1
                    /\ rd' = [rd EXCEPT !.at = "returned", !.reads = @ + 1]
                    /\ accepted_line' = ReadlineResults[k]
                    /\ ret' = [vals |-> res.vals, is_global |-> res.is_global]
               ELSE /\ rd' = Continue(rd)
                    /\ UNCHANGED <<accepted_line, ret, deviations>>
    /\ UNCHANGED <<args_squares, pc, error, ser, modeVars, calVars, sent, queried>>

\* readline() raises (the port failed): caught by the attempt's
\* `except Exception`, which ends the attempt.
RdReadError ==
    /\ rd.at = "read"
    /\ deviations > 0
    /\ deviations' = deviations - 1
    /\ rd' = AttemptOver([rd EXCEPT !.exceptions = @ + 1], "read_error")
    /\ UNCHANGED <<args_squares, pc, error, ser, accepted_line, ret, modeVars,
                   calVars, sent, queried, dev>>

\* time.time() >= end: the loop of the attempt is left without a return.
RdTimeout ==
    /\ rd.at = "read"
    /\ rd.reads >= 1
    /\ rd' = AttemptOver(rd, "timeout")
    /\ UNCHANGED <<args_squares, pc, error, ser, accepted_line, ret, modeVars,
                   calVars, sent, queried, dev, deviations>>

\* ------------------------------------------------------- session helpers
\* [s.strip().upper() for s in args.squares.split(',') if s.strip()]
RawTargets(squares) ==
    LET fields == Split(squares)
        cleaned == [i \in 1..Len(fields) |-> Upper(Strip(fields[i]))]
    IN  SelectSeq(cleaned, LAMBDA t : t # <<>>)

\* [t for t in raw_targets if not (t in seen or seen.add(t))]
RECURSIVE Dedupe(_)
Dedupe(ts) ==
    IF ts = <<>> THEN <<>>
    ELSE LET init == Dedupe(SubSeq(ts, 1, Len(ts) - 1))
             last == ts[Len(ts)]
         IN  IF \E i \in 1..Len(init) : init[i] = last THEN init
             ELSE Append(init, last)

Targets(squares) == Dedupe(RawTargets(squares))

\* _valid_sq
ValidSq(t) ==
    /\ Len(t) >= 2
    /\ \E f \in 1..Len(FILES) : FILES[f] = t[1]
    /\ \A i \in 2..Len(t) : t[i] \in Digits
    /\ 1 <= DigitsValue(Tail(t))
    /\ DigitsValue(Tail(t)) <= 8

\* idx = (rank_n - 1) * 8 + FILES.index(file_letter)
SqIndex(t) ==
    (DigitsValue(Tail(t)) - 1) * 8
        + ((CHOOSE f \in 1..Len(FILES) : FILES[f] = t[1]) - 1)

\* RankRounds as it would be with a stride of 7: neighbouring ranks share
\* a channel and the last channels are never reached.
RankRounds_Stride7 ==
    [rank \in 1..Len(FILES) |-> [k \in 1..8 |-> (rank - 1) * 7 + (k - 1)]]

\* the default path: per rank, indices = [(rank - 1) * 8 + k for k in range(8)]
RankRounds ==
    [rank \in 1..Len(FILES) |-> [k \in 1..8 |-> (rank - 1) * 8 + (k - 1)]]

\* InRound as it would be if a capture stored the whole snapshot.
InRound_Any(rnd, idx) == TRUE

InRound(rnd, idx) == \E j \in 1..Len(rnd) : rnd[j] = idx

\* hi, lo = max(..), min(..); int((hi + lo) / 2)
Midpoint(e, o) ==
    LET hi == IF e >= o THEN e ELSE o
        lo == IF e >= o THEN o ELSE e
    IN  TruncDiv(hi + lo, 2)

RECURSIVE SumSeq(_)
SumSeq(q) == IF q = <<>> THEN 0 ELSE q[1] + SumSeq(Tail(q))

\* round() of the quotient num/den, den > 0: to nearest, ties to even
RoundHalfEven(num, den) ==
    LET q == num \div den
        r == num % den
    IN  IF 2 * r < den THEN q
        ELSE IF 2 * r > den THEN q + 1
        ELSE IF q % 2 = 0 THEN q ELSE q + 1

\* NonZero as it would be if every threshold entered the mean.
NonZero_All(ths) == ths

\* nonzero = [t for t in thresholds if t > 0]
NonZero(ths) == SelectSeq(ths, LAMBDA t : t > 0)

\* int(round(statistics.mean(nonzero)))
GlobalThreshold(ths) == RoundHalfEven(SumSeq(NonZero(ths)), Len(NonZero(ths)))

\* IndividualThresholds as it would be with the two loops interchanged
\* (file-major order).
IndividualThresholds_FileMajor(ths) ==
    [j \in 1..64 |-> ths[((j - 1) % 8) * 8 + ((j - 1) \div 8) + 1]]

\* the rank/file loops that fill individual_thresholds
IndividualThresholds(ths) ==
    [j \in 1..64 |-> ths[((j - 1) \div 8) * 8 + ((j - 1) % 8) + 1]]

\* the piece of the round is taken off the board
DevRemoved(d) ==
    IF d.light \in FirstSettle..LastSettle THEN [d EXCEPT !.light = FirstSettle]
    ELSE d

\* the board takes a byte the host wrote
DevQuiet(d) == [d EXCEPT !.quiet = ~@]
DevCalibrate(d, payload) == [d EXCEPT !.cal = FALSE, !.payload = payload]

\* RejectsSquares as it would be without the test at line 193.
RejectsSquares_Never(is_global, squares) == FALSE

\* line 193: a global board and a non-empty -s
RejectsSquares(is_global, squares) == is_global /\ Strip(squares) # <<>>

\* LastRound as it would be if the capture loop stopped after one round.
LastRound_AfterFirst(rnd, rnds) == rnd >= 1

\* the capture loop has run its last round
LastRound(rnd, rnds) == rnd >= Len(rnds)

\* --------------------------------------------------------------- session
\* Lines 173-179: quiet mode on; an exception is swallowed.  Then the call
\* of _read_thresholds at line 183 begins.
QuietModeOn ==
    /\ pc = "Idle"
    /\ \E outcome \in {"ok", "unsent"} :
        /\ outcome # "ok" => deviations > 0
        /\ deviations' = IF outcome = "ok" THEN deviations ELSE deviations - 1
        /\ sent' = IF outcome = "ok" THEN [sent EXCEPT !["q"] = @ + 1] ELSE sent
        /\ dev' = IF outcome = "ok" THEN DevQuiet(dev) ELSE dev
    /\ pc' = "QuietModeOn"
    /\ rd' = Call("thresholds")
    /\ UNCHANGED <<args_squares, error, ser, accepted_line, ret, modeVars, calVars, queried>>

\* Lines 181-202: the mode from the threshold answer (or the fallback when
\* _read_thresholds raised), the refusal of -s on a global board, and the
\* entry of _average_readings (its empty buckets, its first request).
DetectMode ==
    /\ pc = "QuietModeOn"
    /\ rd.at \in {"returned", "raised"}
    /\ th_vals' = IF rd.at = "returned" THEN ret.vals ELSE Zeros
    /\ board_is_global' = IF rd.at = "returned" THEN ret.is_global ELSE FALSE
    /\ mode' = IF board_is_global' THEN "g" ELSE "i"
    /\ IF RejectsSquares(board_is_global', args_squares)
       THEN /\ pc' = "Aborted"
            /\ error' = "SystemExit: global board, -s not supported"
            /\ rd' = NoCall
            /\ buckets' = buckets
       ELSE /\ pc' = "BaselineCapture"
            /\ error' = error
            /\ rd' = Call("snapshot")
            /\ buckets' = Zeros
    /\ accepted_line' = <<>>
    /\ ret' = NoRet
    /\ UNCHANGED <<args_squares, ser, n_read, empty, occupied, thresholds, rounds,
                   round, captured, sent, queried, dev, deviations>>

\* One pass of the loop of _average_readings on the snapshot it was given.
\* After the last pass: the averages (line 107), lines 207-209, and on the
\* -s path the targets and their validation (lines 212-224).  buckets and
\* the sample count are locals of _average_readings and end with it; vals is
\* not read again once a caller has used it.
AverageSample ==
    /\ pc = "BaselineCapture"
    /\ rd.at = "returned"
    /\ LET b == [i \in 1..NumChannels |-> buckets[i] + ret.vals[i]]
           k == n_read + 1
           targets == Targets(args_squares)
           invalid == \E j \in 1..Len(targets) : ~ValidSq(targets[j])
           rnds == IF Strip(args_squares) # <<>>
                   THEN IF invalid THEN <<>>
                        ELSE [j \in 1..Len(targets) |-> <<SqIndex(targets[j])>>]
                   ELSE RankRounds
       IN  /\ IF k < n_samples
              THEN /\ buckets' = b
                   /\ n_read' = k
                   /\ rd' = Call("snapshot")
                   /\ UNCHANGED <<pc, error, empty, occupied, thresholds, rounds, round>>
              ELSE /\ buckets' = <<>>
                   /\ n_read' = 0
                   /\ rd' = NoCall
                   /\ empty' = [i \in 1..NumChannels |-> TruncDiv(b[i], k)]
                   /\ occupied' = Zeros
                   /\ thresholds' = IF board_is_global
                                    THEN [i \in 1..NumChannels |-> th_vals[1]]
                                    ELSE th_vals
                   /\ rounds' = rnds
                   /\ round' = 1
                   /\ IF Strip(args_squares) # <<>> /\ invalid
                      THEN pc' = "Aborted" /\ error' = "SystemExit: invalid square"
                      ELSE /\ pc' = IF rnds = <<>> THEN "Calibrated" ELSE "AwaitPlacement"
                           /\ error' = error
    /\ accepted_line' = <<>>
    /\ ret' = NoRet
    /\ dev' = DevIdle(dev)
    /\ UNCHANGED <<args_squares, ser, modeVars, captured, sent, queried, deviations>>

\* The TimeoutError of _read_snapshot leaves main() (nothing catches it).
SnapshotFailed ==
    /\ pc \in {"BaselineCapture", "Capture"}
    /\ rd.at = "raised"
    /\ pc' = "Aborted"
    /\ error' = "TimeoutError: snapshot"
    /\ rd' = NoCall
    /\ UNCHANGED <<args_squares, ser, accepted_line, ret, modeVars, calVars, sent, queried, dev, deviations>>

\* While input() at lines 233/253 waits for the operator, the piece that is
\* being put on the square comes to rest: the readings of the board pass
\* through the stages of Observed.  The program takes no step.
PieceSettles ==
    /\ pc = "AwaitPlacement"
    /\ dev.light \in FirstSettle..(LastSettle - 1)
    /\ dev' = [dev EXCEPT !.light = @ + 1]
    /\ UNCHANGED <<args_squares, pc, error, ser, readerVars, modeVars, calVars,
                   sent, queried, deviations>>

\* Lines 233/253: the operator confirms the placement; the one snapshot
\* request of the round begins.
PlacementConfirmed ==
    /\ pc = "AwaitPlacement"
    /\ pc' = "Capture"
    /\ rd' = Call("snapshot")
    /\ UNCHANGED <<args_squares, error, ser, accepted_line, ret, modeVars, calVars, sent, queried, dev, deviations>>

\* Lines 236 / 263-266: occupied[idx] = vals[idx] for the round's indices.
Capture ==
    /\ pc = "Capture"
    /\ rd.at = "returned"
    /\ occupied' = [i \in 1..NumChannels |->
                       IF InRound(rounds[round], i - 1) THEN ret.vals[i]
                       ELSE occupied[i]]
    /\ captured' = captured + 1
    /\ pc' = "AwaitRemoval"
    /\ rd' = NoCall
    /\ accepted_line' = <<>>
    /\ ret' = NoRet
    /\ UNCHANGED <<args_squares, error, ser, modeVars, n_read, buckets, empty,
                   thresholds, rounds, round, sent, queried, dev, deviations>>

\* Lines 243-246 / 269-274: the operator confirms the removal; the round's
\* thresholds; the next round, or the end of the loop.
RemovalConfirmed ==
    /\ pc = "AwaitRemoval"
    /\ thresholds' = [i \in 1..NumChannels |->
                         IF InRound(rounds[round], i - 1)
                         THEN Midpoint(empty[i], occupied[i])
                         ELSE thresholds[i]]
    /\ IF LastRound(round, rounds)
       THEN round' = round /\ pc' = "Calibrated"
       ELSE round' = round + 1 /\ pc' = "AwaitPlacement"
    /\ dev' = DevRemoved(dev)
    /\ UNCHANGED <<args_squares, error, ser, readerVars, modeVars, n_read, buckets,
                   empty, occupied, rounds, captured, sent, queried, deviations>>

\* Lines 276-296: the branch on mode; in global mode the SystemExit when no
\* threshold is positive.
Calibrated ==
    /\ pc = "Calibrated"
    /\ IF mode = "g"
       THEN IF NonZero(thresholds) = <<>>
            THEN pc' = "Aborted" /\ error' = "SystemExit: no thresholds collected"
            ELSE pc' = "PushGlobal" /\ error' = error
       ELSE pc' = "PushIndividual" /\ error' = error
    /\ UNCHANGED <<args_squares, ser, readerVars, modeVars, calVars, sent, queried, dev, deviations>>

\* PushPayload as it would be if the pushers let an exception of the port
\* pass: it would leave main().
PushPayload_Raises(payload) ==
    /\ \E outcome \in {"ok", "unsent", "c_only", "flush_error"} :
        /\ outcome # "ok" => deviations > 0
        /\ deviations' = IF outcome = "ok" THEN deviations ELSE deviations - 1
        /\ sent' = IF outcome = "unsent" THEN sent ELSE [sent EXCEPT !["c"] = @ + 1]
        /\ dev' = CASE outcome = "unsent" -> dev
                    [] outcome = "c_only" -> [dev EXCEPT !.cal = TRUE]
                    [] OTHER -> DevCalibrate(dev, payload)
        /\ pc' = IF outcome = "ok" THEN "QuietModeOff" ELSE "Aborted"
    /\ UNCHANGED <<args_squares, error, ser, readerVars, modeVars, calVars, queried>>

\* The try block shared by push_threshold_global and _individual: 'c', then
\* the payload.  An exception before 'c', between 'c' and the payload, or in
\* the last flush is caught and reported; the caller goes on.
PushPayload(payload) ==
    /\ \E outcome \in {"ok", "unsent", "c_only", "flush_error"} :
        /\ outcome # "ok" => deviations > 0
        /\ deviations' = IF outcome = "ok" THEN deviations ELSE deviations - 1
        /\ sent' = IF outcome = "unsent" THEN sent ELSE [sent EXCEPT !["c"] = @ + 1]
        /\ dev' = CASE outcome = "unsent" -> dev
                    [] outcome = "c_only" -> [dev EXCEPT !.cal = TRUE]
                    [] OTHER -> DevCalibrate(dev, payload)
    /\ pc' = "QuietModeOff"
    /\ UNCHANGED <<args_squares, error, ser, readerVars, modeVars, calVars, queried>>

\* push_threshold_global(ser, global_threshold): f"{value}\n"
PushGlobal ==
    /\ pc = "PushGlobal"
    /\ PushPayload(Str(GlobalThreshold(thresholds)) \o <<"\n">>)

\* push_threshold_individual(ser, individual_thresholds)
PushIndividual ==
    /\ pc = "PushIndividual"
    /\ LET values == IndividualThresholds(thresholds)
       IN  IF Len(values) # 64
           THEN /\ pc' = "Aborted"
                /\ error' = "ValueError: need exactly 64 threshold values"
                /\ UNCHANGED <<args_squares, ser, readerVars, modeVars, calVars, sent, queried, dev, deviations>>
           ELSE PushPayload(Join([i \in 1..Len(values) |-> Str(values[i])]) \o <<"\n">>)

\* Lines 302-311: quiet mode off (an exception is swallowed), ser.close().
QuietModeOff ==
    /\ pc = "QuietModeOff"
    /\ \E outcome \in {"ok", "unsent"} :
        /\ outcome # "ok" => deviations > 0
        /\ deviations' = IF outcome = "ok" THEN deviations ELSE deviations - 1
        /\ sent' = IF outcome = "ok" THEN [sent EXCEPT !["q"] = @ + 1] ELSE sent
        /\ dev' = IF outcome = "ok" THEN DevQuiet(dev) ELSE dev
    /\ ser' = "closed"
    /\ pc' = "Done"
    /\ UNCHANGED <<args_squares, error, readerVars, modeVars, calVars, queried>>

Next ==
    \/ QuietModeOn
    \/ RdSend
    \/ RdReadLine
    \/ RdReadError
    \/ RdTimeout
    \/ DetectMode
    \/ AverageSample
    \/ SnapshotFailed
    \/ PieceSettles
    \/ PlacementConfirmed
    \/ Capture
    \/ RemovalConfirmed
    \/ Calibrated
    \/ PushGlobal
    \/ PushIndividual
    \/ QuietModeOff

Spec == Init /\ [][Next]_vars

\* ------------------------------------------------------------ properties
\* Fields of a comma-separated text, counted on the text itself.
FieldCount(text) == Cardinality({i \in 1..Len(text) : text[i] = ","}) + 1

\* Its non-empty fields: the places where a field begins with a character.
NonEmptyFieldCount(text) ==
    Cardinality({i \in 1..Len(text) :
                    text[i] # "," /\ (i = 1 \/ text[i - 1] = ",")})

\* The line decodes and all fields of its stripped text are integers.
AllIntegers(line) ==
    /\ Decodes(line)
    /\ LET parts == Split(Strip(line))
       IN  \A i \in 1..Len(parts) : IsInt(parts[i])

\* The line decodes and all non-empty fields of its text are integers.
AllNonEmptyIntegers(line) ==
    /\ Decodes(line)
    /\ LET parts == Split(Strip(line))
       IN  \A i \in 1..Len(parts) : parts[i] # <<>> => IsInt(parts[i])

\* The integers of the non-empty fields of a line, in order.
IntegersOf(line) ==
    LET parts == SelectSeq(Split(Strip(line)), LAMBDA p : p # <<>>)
    IN  [i \in 1..Len(parts) |-> IntOf(parts[i])]

\* The lines readline() can return that are 64 integers, and their values.
SixtyFourIntegerLines ==
    {k \in 1..Len(ReadlineResults) :
        /\ ReadlineResults[k] # <<>>
        /\ AllIntegers(ReadlineResults[k])
        /\ FieldCount(Strip(ReadlineResults[k])) = NumChannels}

\* The lines whose non-empty fields are 1 or 64 integers.
ThresholdLines ==
    {k \in 1..Len(ReadlineResults) :
        /\ ReadlineResults[k] # <<>>
        /\ AllNonEmptyIntegers(ReadlineResults[k])
        /\ NonEmptyFieldCount(Strip(ReadlineResults[k])) \in {1, NumChannels}}

LineValues ==
    [k \in SixtyFourIntegerLines \cup ThresholdLines |->
        IntegersOf(ReadlineResults[k])]

\* The lines with an empty field between, before or after commas.
EmptyFieldLines ==
    {k \in 1..Len(ReadlineResults) :
        FieldCount(Strip(ReadlineResults[k]))
            # NonEmptyFieldCount(Strip(ReadlineResults[k]))}

SnapshotReturned == rd.fn = "snapshot" /\ rd.at = "returned"
ThresholdsReturned == rd.fn = "thresholds" /\ rd.at = "returned"
Terminal == pc \in {"Done", "Aborted"}

\* C1: whatever the device sends, a snapshot _read_snapshot returns is a line
\* that decodes and has exactly 64 fields, all integers, and the returned
\* values are those 64 integers; no other line is ever the returned snapshot.
C1_SnapshotIsSixtyFourIntegers ==
    SnapshotReturned =>
        /\ IndexOf(accepted_line) \in SixtyFourIntegerLines
        /\ Len(ret.vals) = NumChannels
        /\ ret.vals = LineValues[IndexOf(accepted_line)]

\* a snapshot returned after a line of the same attempt was discarded
C1_Witness ==
    /\ SnapshotReturned
    /\ rd.reads = 2
    /\ Len(ret.vals) = NumChannels

\* C2: with the budget of 3 attempts and no exception from the port,
\* _read_snapshot that returns in attempt k has written '?' exactly k times
\* and returns the values of the valid line it read; when all 3 attempts end
\* without a valid line it has written '?' exactly 3 times and raises, having
\* returned no value; '?' is never written a 4th time.
C2_RetryBudget ==
    rd.fn = "snapshot" =>
        /\ rd.sent <= Retries
        /\ rd.attempt < Retries
        /\ (rd.exceptions = 0 /\ rd.at \in {"read", "returned"})
              => rd.sent = rd.attempt + 1
        /\ rd.at = "returned"
              => /\ IndexOf(accepted_line) \in SixtyFourIntegerLines
                 /\ ret.vals = LineValues[IndexOf(accepted_line)]
        /\ rd.at = "raised"
              => /\ ret = NoRet
                 /\ rd.attempt = Retries - 1
                 /\ rd.exceptions = 0 => rd.sent = Retries

\* a snapshot returned in the third attempt, after two attempts timed out
C2_Witness ==
    /\ SnapshotReturned
    /\ rd.attempt = Retries - 1
    /\ rd.sent = Retries
    /\ rd.exceptions = 0

\* C3 as stated: within an attempt of either reader only the timeout ends
\* the attempt and moves on to the next one; a malformed line, a wrong field
\* count, a decode failure and an exception of readline() all leave the
\* attempt running.
C3_OnlyTimeoutEndsAttempt ==
    [][(rd.at = "read" /\ rd'.at \in {"send", "raised"})
          => rd'.cause = "timeout"]_vars

\* C3: within an attempt of either reader, a line that is dropped (malformed,
\* wrong field count, decode failure) leaves the attempt and the bytes
\* written as they are and the loop goes on; the attempt ends without a
\* return only by its timeout or by an exception of the port, which is
\* swallowed but moves on to the next attempt (or, after the last one, to the
\* TimeoutError) like a timeout does.
C3_DroppedLineKeepsAttempt ==
    [][rd.at = "read" =>
          \/ rd' = rd
          \/ rd' = [rd EXCEPT !.reads = @ + 1]
          \/ rd' = [rd EXCEPT !.reads = @ + 1, !.at = "returned"]
          \/ /\ rd'.at \in {"send", "raised"}
             /\ rd'.cause \in {"timeout", "read_error"}
             /\ rd'.cause = "timeout" => rd'.exceptions = rd.exceptions
             /\ rd'.cause = "read_error" => rd'.exceptions = rd.exceptions + 1
             /\ rd'.sent = rd.sent
             /\ IF rd.attempt + 1 < Retries
                THEN rd'.at = "send" /\ rd'.attempt = rd.attempt + 1
                ELSE rd'.at = "raised" /\ rd'.attempt = rd.attempt]_vars

\* an exception of readline() has ended the first attempt of the threshold
\* query, which goes on with its second attempt
C3_Witness ==
    /\ rd.fn = "thresholds"
    /\ rd.at = "send"
    /\ rd.attempt = 1
    /\ rd.cause = "read_error"
    /\ rd.exceptions = 1

\* C4 as stated: a line _read_thresholds accepts has exactly 1 or exactly 64
\* comma-separated fields, all integers, and is_global holds exactly when it
\* has 1 field; a line with an empty field is not accepted.
C4_AcceptedHasOneOrSixtyFourFields ==
    ThresholdsReturned =>
        /\ FieldCount(Strip(accepted_line)) \in {1, NumChannels}
        /\ AllIntegers(accepted_line)
        /\ ret.is_global <=> (FieldCount(Strip(accepted_line)) = 1)

\* C4: a line _read_thresholds accepts has exactly 1 or exactly 64 non-empty
\* fields, all of them integers (empty fields are left out before counting),
\* the returned values are those integers, and is_global holds exactly when
\* the line has 1 non-empty field.
C4_AcceptedHasOneOrSixtyFourNonEmptyFields ==
    ThresholdsReturned =>
        /\ IndexOf(accepted_line) \in ThresholdLines
        /\ Len(ret.vals) = NonEmptyFieldCount(Strip(accepted_line))
        /\ ret.vals = LineValues[IndexOf(accepted_line)]
        /\ ret.is_global <=> (NonEmptyFieldCount(Strip(accepted_line)) = 1)

\* the threshold query returned from a line that has an empty field
C4_Witness ==
    /\ ThresholdsReturned
    /\ IndexOf(accepted_line) \in EmptyFieldLines

\* C5: once the threshold answer has made the board global and -s names
\* squares, the session is over with the SystemExit of line 193: no '?' has
\* been written, no baseline and no occupied reading exists, and nothing was
\* pushed.
C5_GlobalBoardRejectsSquares ==
    (mode # "unset" /\ board_is_global /\ Strip(args_squares) # <<>>) =>
        /\ pc = "Aborted"
        /\ error = "SystemExit: global board, -s not supported"
        /\ "?" \notin queried
        /\ rd = NoCall
        /\ empty = <<>>
        /\ occupied = <<>>
        /\ captured = 0
        /\ sent["c"] = 0
        /\ dev.payload = <<>>

\* the session refused -s on a board that answered with one threshold
C5_Witness ==
    /\ pc = "Aborted"
    /\ board_is_global
    /\ Strip(args_squares) # <<>>
    /\ error = "SystemExit: global board, -s not supported"

\* C6 as stated: in every terminal state, Done or Aborted, the serial port
\* is closed.
C6_TerminalStatesClosePort == Terminal => ser = "closed"

\* C7 as stated: when the threshold query has used up its attempts, the
\* session aborts; it goes on to no baseline, capture or push.
C7_ThresholdTimeoutAborts ==
    [][(pc = "QuietModeOn" /\ rd.at = "raised") => pc' = "Aborted"]_vars

\* C8 as stated: what a session pushes fits the firmware of the board: one
\* value goes to a global board only, 64 values to a per-square board only.
\* Stated for sessions in which the port raised nothing and every accepted
\* line was the board's own answer.
C8_PushMatchesFirmwareMode ==
    (dev.payload # <<>> /\ deviations = MaxDeviations) =>
        /\ FieldCount(Strip(dev.payload)) = 1 <=> dev.mode = "g"
        /\ FieldCount(Strip(dev.payload)) = NumChannels <=> dev.mode = "i"

\* C9 as stated: a session that wrote 'q' once writes it a second time
\* before it ends, Done or Aborted, so the quiet flag of the board is at the
\* end what it was at the start.  Stated for sessions in which the port
\* raised nothing.
C9_QuietModeRestored ==
    (Terminal /\ deviations = MaxDeviations /\ sent["q"] >= 1) =>
        /\ sent["q"] = 2
        /\ dev.quiet = FALSE

\* the steps of main() in the order it takes them
SessionOrder ==
    { <<"Idle", "QuietModeOn">>,
      <<"QuietModeOn", "BaselineCapture">>,
      <<"BaselineCapture", "AwaitPlacement">>,
      <<"BaselineCapture", "Calibrated">>,
      <<"AwaitPlacement", "Capture">>,
      <<"Capture", "AwaitRemoval">>,
      <<"AwaitRemoval", "AwaitPlacement">>,
      <<"AwaitRemoval", "Calibrated">>,
      <<"Calibrated", "PushGlobal">>,
      <<"Calibrated", "PushIndividual">>,
      <<"PushGlobal", "QuietModeOff">>,
      <<"PushIndividual", "QuietModeOff">>,
      <<"QuietModeOff", "Done">> }

\* C10: a session moves only along Idle, QuietModeOn, BaselineCapture, zero
\* or more rounds of AwaitPlacement, Capture, AwaitRemoval, then Calibrated,
\* PushGlobal or PushIndividual, QuietModeOff, Done, or leaves that order for
\* Aborted; 'c' is written at most once, only by a push, only when the
\* baseline exists and every round has captured, and never in a session that
\* ends Aborted.
C10_SessionOrder ==
    /\ [](/\ sent["c"] <= 1
          /\ sent["c"] = 1 => /\ pc \in {"QuietModeOff", "Done"}
                              /\ empty # <<>>
                              /\ captured = Len(rounds)
          /\ pc = "Aborted" => sent["c"] = 0)
    /\ [][pc' # pc => \/ <<pc, pc'>> \in SessionOrder
                      \/ pc' = "Aborted" /\ ~Terminal]_vars
    /\ [][sent'["c"] # sent["c"] => pc \in {"PushGlobal", "PushIndividual"}]_vars

\* a session on the rank path that captured all 8 rounds, pushed and ended
C10_Witness ==
    /\ pc = "Done"
    /\ sent["c"] = 1
    /\ captured = 8
    /\ Len(rounds) = 8

Pushing == pc \in {"PushGlobal", "PushIndividual"}

\* C11: a push whose write or flush raises is not fatal: whatever happens
\* to the writes, the push step leaves the thresholds as computed, raises
\* nothing, writes 'c' at most once and takes the session to QuietModeOff;
\* from there the only step of the session closes the port and is Done.
C11_PushFailureIsNotFatal ==
    /\ [][Pushing =>
            /\ pc' = "QuietModeOff"
            /\ error' = "none"
            /\ thresholds' = thresholds
            /\ empty' = empty /\ occupied' = occupied
            /\ sent'["c"] <= 1]_vars
    /\ [][pc = "QuietModeOff" =>
            /\ pc' = "Done"
            /\ ser' = "closed"
            /\ sent'["c"] = sent["c"]
            /\ thresholds' = thresholds]_vars

\* a session that is Done although the payload never reached the board
C11_Witness ==
    /\ pc = "Done"
    /\ ser = "closed"
    /\ error = "none"
    /\ dev.payload = <<>>
    /\ deviations < MaxDeviations

\* the channels some round of the session captures
CalibratedChannels ==
    {idx \in 0..(NumChannels - 1) :
        \E r \in 1..Len(rounds) : \E j \in 1..Len(rounds[r]) : rounds[r][j] = idx}

\* the capture loop is over and every round has computed its thresholds
ThresholdsComputed ==
    /\ empty # <<>>
    /\ captured = Len(rounds)
    /\ pc \notin {"BaselineCapture", "AwaitPlacement", "Capture", "AwaitRemoval"}

\* C12 as stated: the threshold of every calibrated channel is the floor of
\* half the sum of the larger and the smaller of its baseline and occupied
\* readings, for all integers the snapshot parser can return; it does not
\* depend on which of the two is which, and is x when both are x.
C12_ThresholdIsFloorOfMidpoint ==
    ThresholdsComputed =>
        \A idx \in CalibratedChannels :
            LET b == empty[idx + 1]
                o == occupied[idx + 1]
                hi == IF b >= o THEN b ELSE o
                lo == IF b >= o THEN o ELSE b
            IN  /\ thresholds[idx + 1] = (hi + lo) \div 2
                /\ Midpoint(b, o) = Midpoint(o, b)
                /\ Midpoint(b, b) = b

\* the strictly positive entries of the thresholds, summed and counted on
\* the channels themselves
PositiveChannels == {i \in 1..Len(thresholds) : thresholds[i] > 0}

RECURSIVE SumOver(_)
SumOver(I) ==
    IF I = {} THEN 0
    ELSE LET i == CHOOSE x \in I : TRUE
         IN  thresholds[i] + SumOver(I \ {i})

\* v is an integer nearest to sum / n
NearestTo(v, sum, n) ==
    LET d == IF n * v >= sum THEN n * v - sum ELSE sum - n * v
    IN  2 * d <= n

\* C13: in global mode the value pushed is the mean of the strictly positive
\* thresholds rounded to a nearest integer ([0,40,0,60] gives 50); when no
\* threshold is strictly positive the session ends with the SystemExit "no
\* thresholds collected" and has pushed nothing, in particular not 0.
C13_GlobalIsRoundedMeanOfPositives ==
    /\ GlobalThreshold(<<0, 40, 0, 60>>) = 50
    /\ (mode = "g" /\ dev.payload # <<>>) =>
          /\ PositiveChannels # {}
          /\ FieldCount(Strip(dev.payload)) = 1
          /\ IsInt(Strip(dev.payload))
          /\ NearestTo(IntOf(Strip(dev.payload)), SumOver(PositiveChannels),
                       Cardinality(PositiveChannels))
    /\ (mode = "g" /\ ThresholdsComputed /\ PositiveChannels = {}
            /\ pc # "Calibrated") =>
          /\ pc = "Aborted"
          /\ error = "SystemExit: no thresholds collected"
          /\ sent["c"] = 0
          /\ dev.payload = <<>>

\* a global value other than the untouched thresholds has reached the board
C13_Witness ==
    /\ mode = "g"
    /\ pc = "Done"
    /\ dev.payload # <<>>
    /\ \E i \in PositiveChannels : thresholds[i] # IntOf(Strip(dev.payload))

\* e is sum / n with the fraction dropped (toward zero)
TruncatedMean(e, sum, n) ==
    LET abs(x) == IF x >= 0 THEN x ELSE 0 - x
    IN  /\ abs(e) * n <= abs(sum)
        /\ abs(sum) < (abs(e) + 1) * n
        /\ (e > 0 => sum > 0)
        /\ (e < 0 => sum < 0)

\* C14: _average_readings asks for a snapshot exactly n_samples times, one
\* call after the other, each returned snapshot entering every channel's sum
\* once; the baseline exists only after the n_samples-th snapshot and is, per
\* channel, the mean of that channel's readings with the fraction dropped
\* toward zero ([10,20,30] gives 20, [10,10,11] gives 10); when a snapshot
\* call raises, the session ends without a baseline.
C14_BaselineIsTruncatedMean ==
    /\ [](/\ TruncDiv(10 + 20 + 30, 3) = 20
          /\ TruncDiv(10 + 10 + 11, 3) = 10
          /\ pc = "BaselineCapture" =>
                /\ rd.fn = "snapshot"
                /\ n_read < n_samples
                /\ empty = <<>>
          /\ (pc \in {"Idle", "QuietModeOn"}) => empty = <<>>)
    /\ [][pc = "BaselineCapture" =>
            \/ UNCHANGED <<pc, n_read, buckets, empty>>
            \/ /\ rd.at = "raised"
               /\ pc' = "Aborted"
               /\ empty' = <<>>
            \/ /\ rd.at = "returned"
               /\ LET line == LineValues[IndexOf(accepted_line)]
                  IN  IF n_read + 1 < n_samples
                      THEN /\ pc' = pc
                           /\ n_read' = n_read + 1
                           /\ rd' = Call("snapshot")
                           /\ empty' = <<>>
                           /\ \A i \in 1..NumChannels :
                                 buckets'[i] = buckets[i] + line[i]
                      ELSE /\ pc' # pc
                           /\ rd' = NoCall
                           /\ Len(empty') = NumChannels
                           /\ \A i \in 1..NumChannels :
                                 TruncatedMean(empty'[i], buckets[i] + line[i],
                                               n_samples)]_vars

\* the baseline after a sample that differs from the others, on a channel
\* whose mean has a fraction
C14_Witness ==
    /\ pc = "AwaitPlacement"
    /\ Len(empty) = NumChannels
    /\ deviations < MaxDeviations
    /\ \E i \in 1..NumChannels : empty[i] # Reading(dev.light, i - 1)

\* the snapshot a returned call parsed, as the 64 values of the line
AcceptedValues == LineValues[IndexOf(accepted_line)]

\* C15: the same index means the same channel throughout: each snapshot of
\* the baseline adds position i of the accepted line to the sum of channel
\* i, a capture stores position i of the accepted line as occupied[i], the
\* threshold of channel i is computed from baseline[i] and occupied[i], and
\* the per-square payload has exactly 64 values of which the i-th is
\* threshold[i].
C15_ChannelIndexingIsConsistent ==
    /\ [](mode = "i" /\ dev.payload # <<>> =>
            LET fields == Split(Strip(dev.payload))
            IN  /\ Len(fields) = NumChannels
                /\ \A i \in 1..NumChannels :
                      IsInt(fields[i]) /\ IntOf(fields[i]) = thresholds[i])
    /\ [][(pc = "BaselineCapture" /\ rd.at = "returned" /\ buckets' # <<>>
              /\ buckets' # buckets) =>
            \A i \in 1..NumChannels :
                buckets'[i] = buckets[i] + AcceptedValues[i]]_vars
    /\ [][occupied' # occupied /\ occupied # <<>> =>
            /\ pc = "Capture"
            /\ \A i \in 1..NumChannels :
                  occupied'[i] # occupied[i] => occupied'[i] = AcceptedValues[i]]_vars
    /\ [][thresholds' # thresholds /\ thresholds # <<>> =>
            /\ pc = "AwaitRemoval"
            /\ \A i \in 1..NumChannels :
                  thresholds'[i] # thresholds[i] =>
                      thresholds'[i] = Midpoint(empty[i], occupied[i])]_vars

\* a per-square payload on the board whose values differ from channel to
\* channel, after a rank-by-rank calibration
C15_Witness ==
    /\ pc = "Done"
    /\ mode = "i"
    /\ dev.payload # <<>>
    /\ captured = 8
    /\ \A i \in 1..(NumChannels - 1) : thresholds[i] # thresholds[i + 1]

\* the 64 square names: file letter and rank digit
SquareNames ==
    {<<FILES[f], DigitChars[r + 1]>> : f \in 1..Len(FILES), r \in 1..8}

\* the rounds are 8 rounds of 8 places that name 64 different channels:
\* every channel 0..63 is named, and none twice
EveryChannelOnce ==
    /\ Len(rounds) = 8
    /\ \A r \in 1..8 : Len(rounds[r]) = 8
    /\ {rounds[r][j] : r \in 1..8, j \in 1..8} = 0..(NumChannels - 1)

\* SqIndex maps the 64 square names onto 0..63, no two names to one index,
\* and the index of a square is (rank - 1) * 8 + file with the files A..H
\* counted from 0.
SqIndexIsBijection ==
    /\ {SqIndex(t) : t \in SquareNames} = 0..(NumChannels - 1)
    /\ \A t, u \in SquareNames : SqIndex(t) = SqIndex(u) => t = u
    /\ \A t \in SquareNames :
          SqIndex(t) = (DigitVal(t[2]) - 1) * 8
                          + Cardinality({f \in 1..Len(FILES) :
                                            \E g \in (f + 1)..Len(FILES) :
                                                FILES[g] = t[1]})

\* C16: idx = (rank - 1) * 8 + file maps the 64 squares one-to-one onto
\* 0..63, and a calibration without -s has 8 rounds that name every index
\* 0..63 exactly once; when it is over, every round has captured and every
\* channel has the threshold computed from its own readings.
C16_RankRoundsCoverEveryChannelOnce ==
    /\ SqIndexIsBijection
    /\ (Strip(args_squares) = <<>> /\ empty # <<>>) =>
          /\ EveryChannelOnce
          /\ captured <= Len(rounds)
          /\ ThresholdsComputed =>
                /\ captured = 8
                /\ \A i \in 1..NumChannels :
                      thresholds[i] = Midpoint(empty[i], occupied[i])

\* a calibration without -s that has captured all 8 ranks
C16_Witness ==
    /\ Strip(args_squares) = <<>>
    /\ pc = "Calibrated"
    /\ captured = 8
    /\ EveryChannelOnce

\* channel idx is one of the places of the round the session is in
InThisRound(idx) ==
    \E j \in 1..Len(rounds[round]) : rounds[round][j] = idx

DropThreshold == 50
Detected(k) == Observed[1] - Reading(k, 0) > DropThreshold

\* the lowest reading from the detection on
WindowMinimum ==
    SetMin({Reading(k, 0) : k \in {j \in FirstSettle..LastSettle : Detected(j)}})

\* C18 as stated: the occupied reading recorded for a square on which a
\* piece was detected is the lowest reading of the settle window that follows
\* the detection (430 for 500, 500, 440, 430, 445), not the reading of one
\* instant.  Stated for sessions in which the port raised nothing and every
\* accepted line was the board's own answer.
C18_OccupiedIsWindowMinimum ==
    (/\ pc = "AwaitRemoval"
     /\ dev.light \in FirstSettle..LastSettle
     /\ Detected(dev.light)
     /\ deviations = MaxDeviations) =>
        \A i \in 1..NumChannels :
            InThisRound(i - 1) => occupied[i] = WindowMinimum

\* C19 as stated, in its last part: a line _read_snapshot accepts is the
\* board's answer to a '?', never the answer to a '!' of the threshold query
\* that arrives late, whatever the delays and timeouts.
C19_SnapshotIsNeverAThresholdAnswer ==
    SnapshotReturned => IndexOf(accepted_line) # ThresholdAnswer[dev.mode]

\* the channels the squares of -s name
NamedChannels == {SqIndex(t) : t \in {Targets(args_squares)[j] :
                                         j \in 1..Len(Targets(args_squares))}}

\* a session on a board detected per-square from its answer to '!', with -s
\* naming valid squares, after the baseline
RestrictedSession ==
    /\ Strip(args_squares) # <<>>
    /\ mode = "i"
    /\ Len(th_vals) = NumChannels
    /\ empty # <<>>
    /\ pc # "Aborted"

\* C20 as stated: in a per-square session restricted by -s every channel
\* that is not named keeps the threshold the board reported, which is also
\* the value pushed for it; only named channels get a new threshold, and a
\* channel is calibrated once even when it is named more than once.
C20_OnlyNamedChannelsOnce ==
    RestrictedSession =>
        /\ \A i \in 1..NumChannels :
              (i - 1) \notin NamedChannels => thresholds[i] = th_vals[i]
        /\ CalibratedChannels \subseteq NamedChannels
        /\ \A r, q \in 1..Len(rounds) : rounds[r] = rounds[q] => r = q
        /\ dev.payload # <<>> =>
              \A i \in 1..NumChannels :
                  (i - 1) \notin NamedChannels =>
                      IntOf(Split(Strip(dev.payload))[i]) = th_vals[i]

====
